---- MODULE Spec2Model ----
(***************************************************************************)
(* Model of the gincoat application core (package core): App.Bootstrap,    *)
(* App.Run and its helpers handleRoute, integratePackages, registerRoutes  *)
(* and getHTTPSHost.                                                       *)
(*                                                                         *)
(* The calling execution path is followed by pc; the background path that  *)
(* `go httpsGinEngine.RunTLS(...)` launches is followed by tls.state.      *)
(* A gin engine is the ordered log of the attachment calls made on it.     *)
(***************************************************************************)
EXTENDS Naturals, Sequences, FiniteSets, TLC

\* ---------------------------------------------------------------- bounds
MaxRoutes == 2      \* routes registered before Run
MaxHooks == 1       \* integration hooks registered besides the database one

\* ---------------------------------------------------------------- inputs
EnvKeys == {"MODE", "APP_HTTPS_ON", "APP_REDIRECT_HTTP_TO_HTTPS",
            "APP_HTTPS_HOST", "APP_HTTP_HOST"}

ModeInputs == {"", "release", "test"}
HttpsOnInputs == {"", "true", "1", "false", "yes"}
RedirectInputs == {"", "true", "no"}
HostInputs == {"", "a.example", "b.example"}
PortInputs == {"", "8080"}
HookInputs == {"h1"}
MethodInputs == {"get", "post", "delete", "patch", "put", "options", "head",
                 "", "GET", "Post", "connect"}
PathInputs == {"/", "/users"}
ChainInputs == {<<"f">>, <<"f", "g">>, <<"g", "f">>}

\* routes offered to the routing table before Run
RouteInputs == { [method |-> "get", path |-> "/", handlers |-> <<"f">>],
                 [method |-> "post", path |-> "/users", handlers |-> <<"f", "g">>],
                 [method |-> "GET", path |-> "/users", handlers |-> <<"g">>] }

\* every route handed to handleRoute when it is exercised on its own
AllRoutes == [method : MethodInputs, path : PathInputs, handlers : ChainInputs]

VARIABLES
    env,             \* configuration the environment loader serves: key -> string
    envLoaded,       \* env.Load() has run
    ginMode,         \* gin's run mode
    initialised,     \* sub-packages whose New() has run
    integrations,    \* Package Integrator Registry: sequence of hooks
    middlewares,     \* Middleware Registry: sequence of hooks
    routes,          \* Routing Table: sequence of routes
    pc,              \* position of the calling execution path
    bootLog,         \* history: Bootstrap steps in the order they ran
    runArg,          \* history: the argument Run was called with
    portNumber,      \* Run's local portNumber
    httpsOn,         \* Run's local httpsOn
    redirectToHTTPS, \* Run's local redirectToHTTPS
    httpGinEngine,   \* Run's local httpGinEngine
    httpsGinEngine,  \* Run's local httpsGinEngine
    redirectEngine,  \* Run's local redirectEngine
    tls,             \* TLS listener: [state, addr]
    redirect,        \* redirect listener: [state, addr]
    plain,           \* plaintext listener: [state, addr]
    goroutines,      \* background execution paths launched by Run
    startLog,        \* history: listener start calls, [kind, path, addr]
    probe            \* last stand-alone application of a helper

vars == <<env, envLoaded, ginMode, initialised, integrations, middlewares, routes,
          pc, bootLog, runArg, portNumber, httpsOn, redirectToHTTPS,
          httpGinEngine, httpsGinEngine, redirectEngine, tls, redirect, plain,
          goroutines, startLog, probe>>

bootVars == <<envLoaded, ginMode, initialised, integrations, middlewares, routes>>
runVars == <<runArg, portNumber, httpsOn, redirectToHTTPS, httpGinEngine,
             httpsGinEngine, redirectEngine, tls, redirect, plain, goroutines,
             startLog>>

\* ---------------------------------------------------------------- helpers
\* const DB = "db": the name of the database integration
DB == "db"

\* env.Get(key)
Get(key) == env[key]

\* variant: any non-empty string counts as true
ParseBool_NonEmptyTrue(str) == str # ""

\* strconv.ParseBool with the error discarded: the value is false on error
ParseBool(str) ==
    CASE str \in {"1", "t", "T", "TRUE", "true", "True"} -> TRUE
      [] str \in {"0", "f", "F", "FALSE", "false", "False"} -> FALSE
      [] OTHER -> FALSE

\* gin.New(): an engine with nothing attached
ginNew == [ops |-> <<>>]

\* engine.Use(hook)
Use(engine, hook) ==
    [engine EXCEPT !.ops = Append(@, [op |-> "Use", path |-> "", handlers |-> <<hook>>])]

\* gin.Default(): gin.New() with the Logger and Recovery middleware
ginDefault == Use(Use(ginNew, "Logger"), "Recovery")

\* engine.GET / POST / ... (path, handlers...)
Handle(engine, httpMethod, path, handlers) ==
    [engine EXCEPT !.ops = Append(@, [op |-> httpMethod, path |-> path, handlers |-> handlers])]

\* variant: the "options" case is missing from the switch
handleRoute_OptionsMissing(route, ginEngine) ==
    CASE route.method = "get" -> Handle(ginEngine, "GET", route.path, route.handlers)
      [] route.method = "post" -> Handle(ginEngine, "POST", route.path, route.handlers)
      [] route.method = "delete" -> Handle(ginEngine, "DELETE", route.path, route.handlers)
      [] route.method = "patch" -> Handle(ginEngine, "PATCH", route.path, route.handlers)
      [] route.method = "put" -> Handle(ginEngine, "PUT", route.path, route.handlers)
      [] route.method = "head" -> Handle(ginEngine, "HEAD", route.path, route.handlers)
      [] OTHER -> ginEngine

\* variant: the switch also matches the upper-case method names
handleRoute_CaseInsensitive(route, ginEngine) ==
    CASE route.method \in {"get", "GET"} -> Handle(ginEngine, "GET", route.path, route.handlers)
      [] route.method \in {"post", "POST"} -> Handle(ginEngine, "POST", route.path, route.handlers)
      [] route.method \in {"delete", "DELETE"} -> Handle(ginEngine, "DELETE", route.path, route.handlers)
      [] route.method \in {"patch", "PATCH"} -> Handle(ginEngine, "PATCH", route.path, route.handlers)
      [] route.method \in {"put", "PUT"} -> Handle(ginEngine, "PUT", route.path, route.handlers)
      [] route.method \in {"options", "OPTIONS"} -> Handle(ginEngine, "OPTIONS", route.path, route.handlers)
      [] route.method \in {"head", "HEAD"} -> Handle(ginEngine, "HEAD", route.path, route.handlers)
      [] OTHER -> ginEngine

handleRoute(route, ginEngine) ==
    CASE route.method = "get" -> Handle(ginEngine, "GET", route.path, route.handlers)
      [] route.method = "post" -> Handle(ginEngine, "POST", route.path, route.handlers)
      [] route.method = "delete" -> Handle(ginEngine, "DELETE", route.path, route.handlers)
      [] route.method = "patch" -> Handle(ginEngine, "PATCH", route.path, route.handlers)
      [] route.method = "put" -> Handle(ginEngine, "PUT", route.path, route.handlers)
      [] route.method = "options" -> Handle(ginEngine, "OPTIONS", route.path, route.handlers)
      [] route.method = "head" -> Handle(ginEngine, "HEAD", route.path, route.handlers)
      [] OTHER -> ginEngine

RECURSIVE UseAll(_, _)
UseAll(engine, hooks) ==
    IF hooks = <<>> THEN engine
    ELSE UseAll(Use(engine, Head(hooks)), Tail(hooks))

integratePackages(engine) == UseAll(engine, integrations)

useMiddlewares(engine) == UseAll(engine, middlewares)

RECURSIVE registerRoutes(_, _)
registerRoutes(engine, router) ==
    IF router = <<>> THEN engine
    ELSE registerRoutes(handleRoute(Head(router), engine), Tail(router))

\* variant: the HTTP host is preferred to the HTTPS host
getHTTPSHost_HTTPFirst ==
    LET host0 == Get("APP_HTTP_HOST")
        host1 == IF host0 = "" THEN Get("APP_HTTPS_HOST") ELSE host0
        host2 == IF host1 = "" THEN "localhost" ELSE host1
    IN  host2

getHTTPSHost ==
    LET host0 == Get("APP_HTTPS_HOST")
        host1 == IF host0 = "" THEN Get("APP_HTTP_HOST") ELSE host0
        host2 == IF host1 = "" THEN "localhost" ELSE host1
    IN  host2

NoAddr == [host |-> "", port |-> ""]
NoListener == [state |-> "none", addr |-> NoAddr]
NoProbe == [fn |-> "none", route |-> [method |-> "", path |-> "", handlers |-> <<>>],
            before |-> ginNew, after |-> ginNew, host |-> ""]

\* a listen call can bind unless a listener of this process holds the address
CanBind(addr) ==
    /\ ~(tls.state = "running" /\ tls.addr = addr)
    /\ ~(redirect.state = "running" /\ redirect.addr = addr)
    /\ ~(plain.state = "running" /\ plain.addr = addr)

\* ---------------------------------------------------------------- Init
Init ==
    /\ env \in { e \in [EnvKeys -> HostInputs \cup ModeInputs \cup HttpsOnInputs \cup RedirectInputs] :
                   /\ e["MODE"] \in ModeInputs
                   /\ e["APP_HTTPS_ON"] \in HttpsOnInputs
                   /\ e["APP_REDIRECT_HTTP_TO_HTTPS"] \in RedirectInputs
                   /\ e["APP_HTTPS_HOST"] = ""
                   /\ e["APP_HTTP_HOST"] \in {"", "b.example"} }
    /\ envLoaded = FALSE
    /\ ginMode = "debug"
    /\ initialised = {}
    /\ integrations = <<>>
    /\ middlewares = <<>>
    /\ routes = <<>>
    /\ pc = "setAppMode"
    /\ bootLog = <<>>
    /\ runArg = ""
    /\ portNumber = ""
    /\ httpsOn = FALSE
    /\ redirectToHTTPS = FALSE
    /\ httpGinEngine = ginNew
    /\ httpsGinEngine = ginNew
    /\ redirectEngine = ginNew
    /\ tls = NoListener
    /\ redirect = NoListener
    /\ plain = NoListener
    /\ goroutines = 0
    /\ startLog = <<>>
    /\ probe = NoProbe

\* ---------------------------------------------------------------- Bootstrap
setAppMode ==
    /\ pc = "setAppMode"
    /\ ginMode' = IF Get("MODE") = "release" THEN "release"
                  ELSE IF Get("MODE") = "test" THEN "test"
                  ELSE "debug"
    /\ bootLog' = Append(bootLog, "setAppMode")
    /\ pc' = "envLoad"
    /\ UNCHANGED <<env, envLoaded, initialised, integrations, middlewares, routes, probe>>
    /\ UNCHANGED runVars

envLoad ==
    /\ pc = "envLoad"
    /\ envLoaded' = TRUE
    /\ bootLog' = Append(bootLog, "envLoad")
    /\ pc' = "pkgintegratorNew"
    /\ UNCHANGED <<env, ginMode, initialised, integrations, middlewares, routes, probe>>
    /\ UNCHANGED runVars

pkgintegratorNew ==
    /\ pc = "pkgintegratorNew"
    /\ integrations' = <<>>
    /\ initialised' = initialised \cup {"pkgintegrator"}
    /\ bootLog' = Append(bootLog, "pkgintegratorNew")
    /\ pc' = "middlewaresengineNew"
    /\ UNCHANGED <<env, envLoaded, ginMode, middlewares, routes, probe>>
    /\ UNCHANGED runVars

middlewaresengineNew ==
    /\ pc = "middlewaresengineNew"
    /\ middlewares' = <<>>
    /\ initialised' = initialised \cup {"middlewaresengine"}
    /\ bootLog' = Append(bootLog, "middlewaresengineNew")
    /\ pc' = "routingNew"
    /\ UNCHANGED <<env, envLoaded, ginMode, integrations, routes, probe>>
    /\ UNCHANGED runVars

routingNew ==
    /\ pc = "routingNew"
    /\ routes' = <<>>
    /\ initialised' = initialised \cup {"routing"}
    /\ bootLog' = Append(bootLog, "routingNew")
    /\ pc' = "databaseNew"
    /\ UNCHANGED <<env, envLoaded, ginMode, integrations, middlewares, probe>>
    /\ UNCHANGED runVars

databaseNew ==
    /\ pc = "databaseNew"
    /\ initialised' = initialised \cup {"database"}
    /\ bootLog' = Append(bootLog, "databaseNew")
    /\ pc' = "integrateDB"
    /\ UNCHANGED <<env, envLoaded, ginMode, integrations, middlewares, routes, probe>>
    /\ UNCHANGED runVars

\* variant: the database hook is registered before database.New()
integrateDB_Early ==
    /\ pc = "databaseNew"
    /\ integrations' = Append(integrations, DB)
    /\ bootLog' = Append(bootLog, "integrateDB")
    /\ pc' = "setup"
    /\ UNCHANGED <<env, envLoaded, ginMode, initialised, middlewares, routes, probe>>
    /\ UNCHANGED runVars

integrateDB ==
    /\ pc = "integrateDB"
    /\ integrations' = Append(integrations, DB)
    /\ bootLog' = Append(bootLog, "integrateDB")
    /\ pc' = "setup"
    /\ UNCHANGED <<env, envLoaded, ginMode, initialised, middlewares, routes, probe>>
    /\ UNCHANGED runVars

\* ------------------------------------------- between Bootstrap and Run
\* the application registers a further integration hook
Integrate(hook) ==
    /\ pc = "setup"
    /\ Len(integrations) < 1 + MaxHooks
    /\ integrations' = Append(integrations, hook)
    /\ UNCHANGED <<env, envLoaded, ginMode, initialised, middlewares, routes, pc, bootLog, probe>>
    /\ UNCHANGED runVars

\* the application registers a route
RegisterRoute(route) ==
    /\ pc = "setup"
    /\ Len(routes) < MaxRoutes
    /\ routes' = Append(routes, route)
    /\ UNCHANGED <<env, envLoaded, ginMode, initialised, integrations, middlewares, pc, bootLog, probe>>
    /\ UNCHANGED runVars

\* ---------------------------------------------------------------- Run
\* variant: the empty port number is not replaced by "80"
RunEnter_NoDefault(p) ==
    /\ pc = "setup"
    /\ runArg' = p
    /\ portNumber' = p
    /\ httpGinEngine' = ginDefault
    /\ httpsGinEngine' = ginDefault
    /\ httpsOn' = ParseBool(Get("APP_HTTPS_ON"))
    /\ redirectToHTTPS' = ParseBool(Get("APP_REDIRECT_HTTP_TO_HTTPS"))
    /\ pc' = "https"
    /\ UNCHANGED <<env, bootLog, probe, redirectEngine, tls, redirect, plain, goroutines, startLog>>
    /\ UNCHANGED bootVars

\* Run, from its entry to the reading of the two flags
RunEnter(p) ==
    /\ pc = "setup"
    /\ runArg' = p
    /\ portNumber' = IF p = "" THEN "80" ELSE p
    /\ httpGinEngine' = ginDefault
    /\ httpsGinEngine' = ginDefault
    /\ httpsOn' = ParseBool(Get("APP_HTTPS_ON"))
    /\ redirectToHTTPS' = ParseBool(Get("APP_REDIRECT_HTTP_TO_HTTPS"))
    /\ pc' = "https"
    /\ UNCHANGED <<env, bootLog, probe, redirectEngine, tls, redirect, plain, goroutines, startLog>>
    /\ UNCHANGED bootVars

\* variant: the TLS engine is configured but RunTLS is never launched
RunHTTPS_NoLaunch ==
    /\ pc = "https"
    /\ IF httpsOn
       THEN httpsGinEngine' = registerRoutes(
                integratePackages(integratePackages(httpsGinEngine)), routes)
       ELSE UNCHANGED httpsGinEngine
    /\ pc' = "redirect"
    /\ UNCHANGED <<env, bootLog, probe, runArg, portNumber, httpsOn, redirectToHTTPS,
                   httpGinEngine, redirectEngine, tls, redirect, plain, goroutines, startLog>>
    /\ UNCHANGED bootVars

\* if httpsOn { ...; go httpsGinEngine.RunTLS(host, certFile, keyFile) }
RunHTTPS ==
    /\ pc = "https"
    /\ IF httpsOn
       THEN /\ httpsGinEngine' = registerRoutes(
                    integratePackages(integratePackages(httpsGinEngine)), routes)
            /\ tls' = [state |-> "spawned",
                       addr |-> [host |-> getHTTPSHost, port |-> "443"]]
            /\ goroutines' = goroutines + 1
       ELSE UNCHANGED <<httpsGinEngine, tls, goroutines>>
    /\ pc' = "redirect"
    /\ UNCHANGED <<env, bootLog, probe, runArg, portNumber, httpsOn, redirectToHTTPS,
                   httpGinEngine, redirectEngine, redirect, plain, startLog>>
    /\ UNCHANGED bootVars

\* the background path calls RunTLS: the listener binds, or the call fails
TLSListen ==
    /\ tls.state = "spawned"
    /\ startLog' = Append(startLog, [kind |-> "tls", path |-> "background", addr |-> tls.addr])
    /\ \/ /\ CanBind(tls.addr)
          /\ tls' = [tls EXCEPT !.state = "running"]
       \/ tls' = [tls EXCEPT !.state = "failed"]
    /\ UNCHANGED <<env, pc, bootLog, probe, runArg, portNumber, httpsOn, redirectToHTTPS,
                   httpGinEngine, httpsGinEngine, redirectEngine, redirect, plain, goroutines>>
    /\ UNCHANGED bootVars

\* variant: a TLS listener failure ends the calling path as well
TLSFail_Aborts ==
    /\ tls.state = "running"
    /\ tls' = [tls EXCEPT !.state = "failed"]
    /\ pc' = "done"
    /\ UNCHANGED <<env, bootLog, probe, runArg, portNumber, httpsOn, redirectToHTTPS,
                   httpGinEngine, httpsGinEngine, redirectEngine, redirect, plain, goroutines,
                   startLog>>
    /\ UNCHANGED bootVars

\* a fatal listener error ends the serving TLS listener; nothing reports it
TLSFail ==
    /\ tls.state = "running"
    /\ tls' = [tls EXCEPT !.state = "failed"]
    /\ UNCHANGED <<env, pc, bootLog, probe, runArg, portNumber, httpsOn, redirectToHTTPS,
                   httpGinEngine, httpsGinEngine, redirectEngine, redirect, plain, goroutines,
                   startLog>>
    /\ UNCHANGED bootVars

\* variant: the redirect listener is started on a background path
\* (go redirectEngine.Run(...)), so the calling path does not wait for it
RunRedirect_Async ==
    /\ pc = "redirect"
    /\ IF httpsOn /\ redirectToHTTPS
       THEN /\ redirectEngine' = Use(ginNew, "secureFunc")
            /\ redirect' = [state |-> "starting", addr |-> [host |-> "", port |-> portNumber]]
            /\ startLog' = Append(startLog, [kind |-> "redirect", path |-> "calling",
                                             addr |-> [host |-> "", port |-> portNumber]])
       ELSE UNCHANGED <<redirectEngine, redirect, startLog>>
    /\ pc' = "plain"
    /\ UNCHANGED <<env, bootLog, probe, runArg, portNumber, httpsOn, redirectToHTTPS,
                   httpGinEngine, httpsGinEngine, tls, plain, goroutines>>
    /\ UNCHANGED bootVars

\* if httpsOn && redirectToHTTPS { ...; redirectEngine.Run(":" + portNumber) }
RunRedirect ==
    /\ pc = "redirect"
    /\ IF httpsOn /\ redirectToHTTPS
       THEN /\ redirectEngine' = Use(ginNew, "secureFunc")
            /\ redirect' = [state |-> "starting", addr |-> [host |-> "", port |-> portNumber]]
            /\ startLog' = Append(startLog, [kind |-> "redirect", path |-> "calling",
                                             addr |-> [host |-> "", port |-> portNumber]])
            /\ pc' = "inRedirectRun"
       ELSE /\ pc' = "plain"
            /\ UNCHANGED <<redirectEngine, redirect, startLog>>
    /\ UNCHANGED <<env, bootLog, probe, runArg, portNumber, httpsOn, redirectToHTTPS,
                   httpGinEngine, httpsGinEngine, tls, plain, goroutines>>
    /\ UNCHANGED bootVars

\* inside redirectEngine.Run: the listener binds and serves, or the call returns
ListenRedirect ==
    /\ pc = "inRedirectRun"
    /\ redirect.state = "starting"
    /\ \/ /\ CanBind(redirect.addr)
          /\ redirect' = [redirect EXCEPT !.state = "running"]
          /\ pc' = pc
       \/ /\ redirect' = [redirect EXCEPT !.state = "returned"]
          /\ pc' = "plain"
    /\ UNCHANGED <<env, bootLog, probe, runArg, portNumber, httpsOn, redirectToHTTPS,
                   httpGinEngine, httpsGinEngine, redirectEngine, tls, plain, goroutines,
                   startLog>>
    /\ UNCHANGED bootVars

\* a fatal listener error makes redirectEngine.Run return
RedirectFail ==
    /\ pc = "inRedirectRun"
    /\ redirect.state = "running"
    /\ redirect' = [redirect EXCEPT !.state = "returned"]
    /\ pc' = "plain"
    /\ UNCHANGED <<env, bootLog, probe, runArg, portNumber, httpsOn, redirectToHTTPS,
                   httpGinEngine, httpsGinEngine, redirectEngine, tls, plain, goroutines,
                   startLog>>
    /\ UNCHANGED bootVars

\* variant: the plaintext engine gets the integration hooks once
RunPlain_SingleIntegrate ==
    /\ pc = "plain"
    /\ httpGinEngine' = registerRoutes(integratePackages(httpGinEngine), routes)
    /\ plain' = [state |-> "starting", addr |-> [host |-> "", port |-> portNumber]]
    /\ startLog' = Append(startLog, [kind |-> "plain", path |-> "calling",
                                     addr |-> [host |-> "", port |-> portNumber]])
    /\ pc' = "inPlainRun"
    /\ UNCHANGED <<env, bootLog, probe, runArg, portNumber, httpsOn, redirectToHTTPS,
                   httpsGinEngine, redirectEngine, tls, redirect, goroutines>>
    /\ UNCHANGED bootVars

\* serve the http version: ...; httpGinEngine.Run(":" + portNumber)
RunPlain ==
    /\ pc = "plain"
    /\ httpGinEngine' = registerRoutes(
            integratePackages(integratePackages(httpGinEngine)), routes)
    /\ plain' = [state |-> "starting", addr |-> [host |-> "", port |-> portNumber]]
    /\ startLog' = Append(startLog, [kind |-> "plain", path |-> "calling",
                                     addr |-> [host |-> "", port |-> portNumber]])
    /\ pc' = "inPlainRun"
    /\ UNCHANGED <<env, bootLog, probe, runArg, portNumber, httpsOn, redirectToHTTPS,
                   httpsGinEngine, redirectEngine, tls, redirect, goroutines>>
    /\ UNCHANGED bootVars

\* inside httpGinEngine.Run: the listener binds and serves, or the call returns
ListenPlain ==
    /\ pc = "inPlainRun"
    /\ plain.state = "starting"
    /\ \/ /\ CanBind(plain.addr)
          /\ plain' = [plain EXCEPT !.state = "running"]
          /\ pc' = pc
       \/ /\ plain' = [plain EXCEPT !.state = "returned"]
          /\ pc' = "done"
    /\ UNCHANGED <<env, bootLog, probe, runArg, portNumber, httpsOn, redirectToHTTPS,
                   httpGinEngine, httpsGinEngine, redirectEngine, tls, redirect, goroutines,
                   startLog>>
    /\ UNCHANGED bootVars

\* a fatal listener error makes httpGinEngine.Run, and with it Run, return
PlainFail ==
    /\ pc = "inPlainRun"
    /\ plain.state = "running"
    /\ plain' = [plain EXCEPT !.state = "returned"]
    /\ pc' = "done"
    /\ UNCHANGED <<env, bootLog, probe, runArg, portNumber, httpsOn, redirectToHTTPS,
                   httpGinEngine, httpsGinEngine, redirectEngine, tls, redirect, goroutines,
                   startLog>>
    /\ UNCHANGED bootVars

Next ==
    \/ setAppMode
    \/ envLoad
    \/ pkgintegratorNew
    \/ middlewaresengineNew
    \/ routingNew
    \/ databaseNew
    \/ integrateDB
    \/ \E hook \in HookInputs : Integrate(hook)
    \/ \E route \in RouteInputs : RegisterRoute(route)
    \/ \E p \in PortInputs : RunEnter(p)
    \/ RunHTTPS
    \/ TLSListen
    \/ TLSFail
    \/ RunRedirect
    \/ ListenRedirect
    \/ RedirectFail
    \/ RunPlain
    \/ ListenPlain
    \/ PlainFail

Spec == Init /\ [][Next]_vars


\* fairness: the steps the code itself takes are eventually taken; the
\* failure of a serving listener is the environment's and is not forced
Fairness ==
    /\ WF_vars(RunHTTPS)
    /\ WF_vars(TLSListen)
    /\ WF_vars(RunRedirect)
    /\ WF_vars(ListenRedirect)
    /\ WF_vars(RunPlain)
    /\ WF_vars(ListenPlain)

FairSpec == Spec /\ Fairness

\* ------------------------------------------- the helpers on their own
EngineInputs == {ginNew, ginDefault, Handle(ginDefault, "GET", "/", <<"f">>)}

HelperInit ==
    /\ env \in { e \in [EnvKeys -> HostInputs] :
                   /\ e["MODE"] = ""
                   /\ e["APP_HTTPS_ON"] = ""
                   /\ e["APP_REDIRECT_HTTP_TO_HTTPS"] = "" }
    /\ envLoaded = TRUE
    /\ ginMode = "debug"
    /\ initialised = {}
    /\ integrations = <<>>
    /\ middlewares = <<>>
    /\ routes = <<>>
    /\ pc = "helper"
    /\ bootLog = <<>>
    /\ runArg = ""
    /\ portNumber = ""
    /\ httpsOn = FALSE
    /\ redirectToHTTPS = FALSE
    /\ httpGinEngine = ginNew
    /\ httpsGinEngine = ginNew
    /\ redirectEngine = ginNew
    /\ tls = NoListener
    /\ redirect = NoListener
    /\ plain = NoListener
    /\ goroutines = 0
    /\ startLog = <<>>
    /\ probe = NoProbe

ApplyHandleRoute(route, ginEngine) ==
    /\ pc = "helper"
    /\ probe' = [fn |-> "handleRoute", route |-> route, before |-> ginEngine,
                 after |-> handleRoute(route, ginEngine), host |-> ""]
    /\ UNCHANGED <<env, pc, bootLog>>
    /\ UNCHANGED bootVars
    /\ UNCHANGED runVars

ApplyGetHTTPSHost ==
    /\ pc = "helper"
    /\ probe' = [NoProbe EXCEPT !.fn = "getHTTPSHost", !.host = getHTTPSHost]
    /\ UNCHANGED <<env, pc, bootLog>>
    /\ UNCHANGED bootVars
    /\ UNCHANGED runVars

HelperNext ==
    \/ \E route \in AllRoutes, ginEngine \in EngineInputs : ApplyHandleRoute(route, ginEngine)
    \/ ApplyGetHTTPSHost

HelperSpec == HelperInit /\ [][HelperNext]_vars

\* ---------------------------------------------------------------- claims
TrueStrings == {"1", "t", "T", "TRUE", "true", "True"}
HttpsEnabled == env["APP_HTTPS_ON"] \in TrueStrings
RedirectEnabled == env["APP_REDIRECT_HTTP_TO_HTTPS"] \in TrueStrings
RunCalled == pc \in {"https", "redirect", "inRedirectRun", "plain", "inPlainRun", "done"}
Attempted(kind) == \E i \in 1..Len(startLog) : startLog[i].kind = kind
Starts(kind) == Cardinality({i \in 1..Len(startLog) : startLog[i].kind = kind})
SuppliedPort == IF runArg = "" THEN "80" ELSE runArg
TLSLaunched == tls.state # "none"

\* C1 as stated: with both flags true, every execution of Run attempts to
\* start the TLS listener on 443, the redirect listener on the supplied
\* port and the plaintext listener on the supplied port.
C1_AllThreeAttempted ==
    (RunCalled /\ HttpsEnabled /\ RedirectEnabled)
        ~> (/\ TLSLaunched /\ tls.addr.port = "443"
            /\ Attempted("redirect") /\ redirect.addr.port = SuppliedPort
            /\ Attempted("plain") /\ plain.addr.port = SuppliedPort)

\* C1 amended: with both flags true, every execution of Run attempts to
\* start the TLS listener on 443 and the redirect listener on the supplied
\* port; the plaintext listener on the supplied port is attempted only
\* once the redirect listener's blocking start call has returned, and is
\* attempted whenever that call returns.
C1_TLSAndRedirectThenPlainOnReturn ==
    /\ (RunCalled /\ HttpsEnabled /\ RedirectEnabled)
          ~> (/\ TLSLaunched /\ tls.addr.port = "443"
              /\ Attempted("redirect") /\ redirect.addr.port = SuppliedPort)
    /\ [](RunCalled /\ HttpsEnabled /\ RedirectEnabled /\ Attempted("plain")
            => redirect.state = "returned")
    /\ (RunCalled /\ HttpsEnabled /\ RedirectEnabled /\ redirect.state = "returned")
          ~> (Attempted("plain") /\ plain.addr.port = SuppliedPort)

C1_Witness ==
    /\ HttpsEnabled /\ RedirectEnabled
    /\ tls.state = "running"
    /\ redirect.state = "returned"
    /\ plain.state = "running"

\* C2: the redirect listener and the plaintext listener are never both
\* started at the same time on the same port: the plaintext listener's
\* start is reached only after the redirect listener's blocking start call
\* has returned.
C2_RedirectReturnedBeforePlain ==
    /\ ~(redirect.state \in {"starting", "running"} /\ plain.state \in {"starting", "running"})
    /\ (redirect.state # "none" /\ (plain.state # "none" \/ Attempted("plain")))
          => redirect.state = "returned"

C2_Witness ==
    /\ redirect.state = "returned"
    /\ plain.state = "running"
    /\ plain.addr = redirect.addr

\* C3: when APP_HTTPS_ON does not parse to true, whatever the redirect flag
\* is, Run starts neither the TLS nor the redirect listener; the only
\* listener started is the plaintext one, on the supplied port, carrying
\* the routes registered before Run (those with a recognised method).
RecognisedMethods == {"get", "post", "delete", "patch", "put", "options", "head"}
MethodCall == [m \in RecognisedMethods |->
                 CASE m = "get" -> "GET" [] m = "post" -> "POST"
                   [] m = "delete" -> "DELETE" [] m = "patch" -> "PATCH"
                   [] m = "put" -> "PUT" [] m = "options" -> "OPTIONS"
                   [] m = "head" -> "HEAD"]
IsRecognised(route) == route.method \in RecognisedMethods
IsRouteOp(o) == o.op # "Use"
RouteOp(route) == [op |-> MethodCall[route.method], path |-> route.path,
                   handlers |-> route.handlers]
ExpectedRouteOps ==
    LET rs == SelectSeq(routes, IsRecognised)
    IN  [i \in 1..Len(rs) |-> RouteOp(rs[i])]

C3_HttpsOffOnlyPlain ==
    (RunCalled /\ ~HttpsEnabled) =>
        /\ tls.state = "none"
        /\ redirect.state = "none"
        /\ goroutines = 0
        /\ \A i \in 1..Len(startLog) : startLog[i].kind = "plain"
        /\ plain.state # "none" =>
              /\ plain.addr = [host |-> "", port |-> SuppliedPort]
              /\ SelectSeq(httpGinEngine.ops, IsRouteOp) = ExpectedRouteOps

C3_Witness ==
    /\ env["APP_HTTPS_ON"] = "yes"
    /\ RedirectEnabled
    /\ plain.state = "running"
    /\ Len(routes) > 0
    /\ startLog = <<[kind |-> "plain", path |-> "calling",
                     addr |-> [host |-> "", port |-> "8080"]]>>

\* C4: Run("") binds the plaintext and the redirect listener to port "80";
\* a non-empty portNumber is bound unchanged.
C4_EffectivePort ==
    /\ redirect.state # "none" =>
          redirect.addr = [host |-> "", port |-> IF runArg = "" THEN "80" ELSE runArg]
    /\ plain.state # "none" =>
          plain.addr = [host |-> "", port |-> IF runArg = "" THEN "80" ELSE runArg]
    /\ \A i \in 1..Len(startLog) :
          startLog[i].kind # "tls" =>
              startLog[i].addr.port = (IF runArg = "" THEN "80" ELSE runArg)

C4_Witness ==
    /\ RunCalled
    /\ runArg = ""
    /\ redirect.state = "returned"
    /\ redirect.addr.port = "80"
    /\ plain.state = "running"
    /\ plain.addr.port = "80"

\* C5: for a route whose method is one of get, post, delete, patch, put,
\* options, head, handleRoute makes exactly one registration call on the
\* engine, the one named after the method, with the route's path and its
\* handler chain in the same order, and no other call.
C5_RecognisedMethodOneCall ==
    (probe.fn = "handleRoute" /\ probe.route.method \in RecognisedMethods) =>
        /\ Len(probe.after.ops) = Len(probe.before.ops) + 1
        /\ SubSeq(probe.after.ops, 1, Len(probe.before.ops)) = probe.before.ops
        /\ probe.after.ops[Len(probe.after.ops)] =
              [op |-> MethodCall[probe.route.method], path |-> probe.route.path,
               handlers |-> probe.route.handlers]

C5_Witness ==
    /\ probe.fn = "handleRoute"
    /\ probe.route = [method |-> "options", path |-> "/users", handlers |-> <<"g", "f">>]
    /\ probe.before = ginDefault
    /\ Len(probe.after.ops) = 3

\* C6: for a route whose method is none of the seven lower-case strings
\* (the empty string and upper-case forms included), handleRoute makes no
\* registration call and leaves the engine as it was.
C6_UnrecognisedMethodNoCall ==
    (probe.fn = "handleRoute" /\ probe.route.method \notin RecognisedMethods) =>
        probe.after = probe.before

C6_Witness ==
    /\ probe.fn = "handleRoute"
    /\ probe.route.method = "GET"
    /\ probe.before # ginNew
    /\ probe.after = probe.before

\* C7: getHTTPSHost returns APP_HTTPS_HOST if non-empty, else APP_HTTP_HOST
\* if non-empty, else "localhost"; it never returns the empty string.
C7_HostPrecedence ==
    probe.fn = "getHTTPSHost" =>
        /\ env["APP_HTTPS_HOST"] # "" => probe.host = env["APP_HTTPS_HOST"]
        /\ (env["APP_HTTPS_HOST"] = "" /\ env["APP_HTTP_HOST"] # "")
              => probe.host = env["APP_HTTP_HOST"]
        /\ (env["APP_HTTPS_HOST"] = "" /\ env["APP_HTTP_HOST"] = "")
              => probe.host = "localhost"
        /\ probe.host # ""

C7_Witness ==
    /\ probe.fn = "getHTTPSHost"
    /\ env["APP_HTTPS_HOST"] = ""
    /\ env["APP_HTTP_HOST"] = "b.example"
    /\ probe.host = "b.example"

\* C8: Bootstrap performs its seven steps in the fixed order, each exactly
\* once and each after the previous one: run mode from MODE, environment
\* load, integrator registry, middleware registry, routing table, database
\* connector, database hook; the run mode is decided before the environment
\* is loaded and the database hook is registered only after the integrator
\* registry and the database connector are initialised.
BootOrder == <<"setAppMode", "envLoad", "pkgintegratorNew", "middlewaresengineNew",
               "routingNew", "databaseNew", "integrateDB">>
InBootLog(step) == \E i \in 1..Len(bootLog) : bootLog[i] = step
HasHook(hook) == \E i \in 1..Len(integrations) : integrations[i] = hook

C8_BootstrapOrder ==
    /\ Len(bootLog) <= Len(BootOrder)
    /\ bootLog = SubSeq(BootOrder, 1, Len(bootLog))
    /\ (pc = "setup" \/ RunCalled) => bootLog = BootOrder
    /\ envLoaded <=> InBootLog("envLoad")
    /\ envLoaded => (/\ InBootLog("setAppMode")
                     /\ ginMode = (CASE env["MODE"] = "release" -> "release"
                                     [] env["MODE"] = "test" -> "test"
                                     [] OTHER -> "debug"))
    /\ ("pkgintegrator" \in initialised) <=> InBootLog("pkgintegratorNew")
    /\ ("middlewaresengine" \in initialised) <=> InBootLog("middlewaresengineNew")
    /\ ("routing" \in initialised) <=> InBootLog("routingNew")
    /\ ("database" \in initialised) <=> InBootLog("databaseNew")
    /\ HasHook(DB) <=> InBootLog("integrateDB")
    /\ HasHook(DB) => (/\ {"pkgintegrator", "database"} \subseteq initialised
                       /\ integrations[1] = DB)

C8_Witness ==
    /\ pc = "setup"
    /\ bootLog = BootOrder
    /\ env["MODE"] = "test"
    /\ ginMode = "test"
    /\ integrations = <<DB>>

\* C9: with N hooks in the registry, every TLS or plaintext engine Run
\* starts carries, when started, the registry's hooks twice over (h1..hN
\* then h1..hN again), all attached before any route, then each route with
\* a recognised method once in routing-table order; the redirect engine
\* carries only the redirect hook and no route.
UseOps(hooks) == [i \in 1..Len(hooks) |-> [op |-> "Use", path |-> "", handlers |-> <<hooks[i]>>]]
ExpectedOps ==
    UseOps(<<"Logger", "Recovery">>) \o UseOps(integrations) \o UseOps(integrations)
        \o ExpectedRouteOps

C9_EngineContents ==
    /\ tls.state # "none" => httpsGinEngine.ops = ExpectedOps
    /\ plain.state # "none" => httpGinEngine.ops = ExpectedOps
    /\ redirect.state # "none" => redirectEngine.ops = UseOps(<<"secureFunc">>)
    /\ \A e \in {httpsGinEngine, httpGinEngine} :
          /\ Cardinality({i \in 1..Len(e.ops) :
                 e.ops[i].op = "Use" /\ HasHook(e.ops[i].handlers[1])})
                \in {0, 2 * Len(integrations)}
          /\ \A i, j \in 1..Len(e.ops) :
                (e.ops[i].op = "Use" /\ e.ops[j].op # "Use") => i < j

C9_Witness ==
    /\ tls.state = "running"
    /\ plain.state = "running"
    /\ redirect.state = "returned"
    /\ integrations = <<DB, "h1">>
    /\ Len(routes) = 2
    /\ Len(ExpectedRouteOps) = 1
    /\ Len(httpGinEngine.ops) = 7

\* C10: in one Run at most one TLS and at most one plaintext listener are
\* started and at most one background path is launched; that path exists
\* only when HTTPS is enabled and runs only the TLS listener, the redirect
\* and plaintext listeners are started on the calling path, and a failure
\* of the TLS listener changes nothing on the calling path.
callingPathVars == <<pc, portNumber, httpsOn, redirectToHTTPS, httpGinEngine,
                     redirectEngine, redirect, plain>>

C10_OneOfEachAndIsolatedTLS ==
    /\ [](/\ Starts("tls") <= 1
          /\ Starts("plain") <= 1
          /\ goroutines <= 1
          /\ goroutines = 1 <=> (RunCalled /\ HttpsEnabled /\ pc # "https")
          /\ TLSLaunched <=> goroutines = 1
          /\ \A i \in 1..Len(startLog) :
                startLog[i].path = "background" <=> startLog[i].kind = "tls")
    /\ [][(tls.state # "none" /\ tls' # tls)
            => UNCHANGED callingPathVars]_vars

C10_Witness ==
    /\ tls.state = "failed"
    /\ Starts("tls") = 1
    /\ redirect.state = "returned"
    /\ plain.state = "running"
    /\ goroutines = 1

====
